---- MODULE Spec2Model ----
(***************************************************************************)
(* State-machine model of src/cli_bank.py: the Banco registry of Usuario   *)
(* and Conta objects and the Conta operations depositar and sacar.         *)
(*                                                                         *)
(* Amounts are Python floats.  A float is modelled as a record             *)
(* [nan, v]: either NaN, or the finite value v / ESCALA.  Every finite     *)
(* value used is a multiple of 1/ESCALA with ESCALA a power of two, so     *)
(* float addition, subtraction and comparison on them are exact and the    *)
(* integer arithmetic below is what the interpreter computes.              *)
(*                                                                         *)
(* extrato is the statement text.  It is modelled as the sequence of its   *)
(* lines; a line is the kind of movement and the amount as the text        *)
(* "{valor:.2f}" shows it (a whole number of centavos, or "nan").  The     *)
(* date prefix of a line comes from the wall clock and is not modelled.    *)
(***************************************************************************)
EXTENDS Integers, Sequences, FiniteSets, TLC

VARIABLES usuarios, contas, sequencial_conta, ult

vars == <<usuarios, contas, sequencial_conta, ult>>

----------------------------------------------------------------------------
(* Bounds of the model *)

MaxUsuarios == 2
MaxContas == 2
MaxMov == 5
MaxMovBanco == 2

----------------------------------------------------------------------------
(* Floats *)

ESCALA == 2^8

F(v) == [nan |-> FALSE, v |-> v]
NaN == [nan |-> TRUE, v |-> 0]
Reais(n) == F(n * ESCALA)

\* x <= y, x > y, x >= y on floats: every comparison with NaN is false
FLe(x, y) == ~x.nan /\ ~y.nan /\ x.v <= y.v
FGt(x, y) == ~x.nan /\ ~y.nan /\ x.v > y.v
FGe(x, y) == ~x.nan /\ ~y.nan /\ x.v >= y.v

\* x + y and x - y on floats: NaN propagates
FAdd(x, y) == IF x.nan \/ y.nan THEN NaN ELSE F(x.v + y.v)
FSub(x, y) == IF x.nan \/ y.nan THEN NaN ELSE F(x.v - y.v)

\* |v| / ESCALA in centavos, rounded to nearest, ties to even
ArredondaCentavos(m) ==
    LET q == (m * 100) \div ESCALA
        r == (m * 100) % ESCALA
    IN  IF 2 * r > ESCALA \/ (2 * r = ESCALA /\ q % 2 = 1) THEN q + 1 ELSE q

\* f"{x:.2f}": the text, as [nan, centavos]
Fmt2(x) ==
    IF x.nan THEN [nan |-> TRUE, centavos |-> 0]
    ELSE [nan |-> FALSE,
          centavos |-> IF x.v >= 0 THEN ArredondaCentavos(x.v)
                       ELSE 0 - ArredondaCentavos(0 - x.v)]

----------------------------------------------------------------------------
(* Program constants and messages *)

AGENCIA == "0001"
LIMITE_SAQUES == 3

MSG_VALOR_INVALIDO == "Operacao falhou! O valor informado e invalido."
MSG_DEPOSITO_OK == "Deposito realizado com sucesso!"
MSG_SEM_SALDO == "Operacao falhou! Voce nao tem saldo suficiente."
MSG_EXCEDE_LIMITE == "Operacao falhou! O valor do saque excede o limite."
MSG_EXCEDE_SAQUES == "Operacao falhou! Numero maximo de saques excedido."
MSG_SAQUE_OK == "Saque realizado com sucesso!"
MSG_USUARIO_EXISTE == "Usuario ja cadastrado!"
MSG_USUARIO_OK == "Usuario criado com sucesso!"
MSG_USUARIO_NAO_ENCONTRADO == "Usuario nao encontrado! Cadastro necessario."
MSG_CONTA_OK == "Conta criada com sucesso!"
MSG_SEM_MOVIMENTACOES == "Nao foram realizadas movimentacoes."
\* stands for the text printed by print(self.extrato.strip()): the lines of
\* the statement
MSG_EXTRATO == "extrato"

----------------------------------------------------------------------------
(* Inputs *)

Nomes == {"Ana", "Bia"}
NomesConta == {"Ana"}
CPFsConta == {"111"}
Datas == {"01-01-1990"}
CPFs == {"", "111"}
Enderecos == {"Rua A, 1 - Centro - Sao Paulo/SP"}

\* -1.00, 0.00, 1/256 (below half a centavo), 1.00, 500.00, 1500.00, nan
Valores == {Reais(-1), Reais(0), F(1), Reais(1), Reais(500), Reais(1500), NaN}
ValoresDeposito == {Reais(-1), Reais(0), F(1), Reais(1500), NaN}
ValoresBanco == {Reais(0), Reais(1)}

----------------------------------------------------------------------------
(* Usuario, Conta *)

Usuario(nome, data_nascimento, cpf, endereco) ==
    [nome |-> nome, data_nascimento |-> data_nascimento,
     cpf |-> cpf, endereco |-> endereco]

\* Conta.__init__; usuario is the position of the owner in usuarios
ContaInit(agencia, numero_conta, usuario) ==
    [agencia |-> agencia, numero_conta |-> numero_conta, usuario |-> usuario,
     saldo |-> Reais(0), limite |-> Reais(500), extrato |-> <<>>,
     numero_saques |-> 0, LIMITE_SAQUES |-> LIMITE_SAQUES]

\* Conta._adiciona_movimento
adiciona_movimento(c, tipo, valor) ==
    [c EXCEPT !.extrato = Append(@, [tipo |-> tipo, valor |-> Fmt2(valor)])]

\* depositar with the amount test written < instead of <=
depositar_aceita_zero(c, valor) ==
    IF ~valor.nan /\ valor.v < 0
    THEN [conta |-> c, ret |-> FALSE, msg |-> MSG_VALOR_INVALIDO]
    ELSE [conta |-> adiciona_movimento(
                        [c EXCEPT !.saldo = FAdd(c.saldo, valor)],
                        "Deposito", valor),
          ret |-> TRUE, msg |-> MSG_DEPOSITO_OK]

\* depositar that starts a new count of withdrawals
depositar_zera_saques(c, valor) ==
    IF FLe(valor, Reais(0))
    THEN [conta |-> c, ret |-> FALSE, msg |-> MSG_VALOR_INVALIDO]
    ELSE [conta |-> adiciona_movimento(
                        [c EXCEPT !.saldo = FAdd(c.saldo, valor),
                                  !.numero_saques = 0],
                        "Deposito", valor),
          ret |-> TRUE, msg |-> MSG_DEPOSITO_OK]

\* Conta.depositar: the account after the call, the value returned, the message
depositar(c, valor) ==
    IF FLe(valor, Reais(0))
    THEN [conta |-> c, ret |-> FALSE, msg |-> MSG_VALOR_INVALIDO]
    ELSE [conta |-> adiciona_movimento(
                        [c EXCEPT !.saldo = FAdd(c.saldo, valor)],
                        "Deposito", valor),
          ret |-> TRUE, msg |-> MSG_DEPOSITO_OK]

\* sacar with the count test written > instead of >=
sacar_saques_maior(c, valor) ==
    IF FLe(valor, Reais(0))
    THEN [conta |-> c, ret |-> FALSE, msg |-> MSG_VALOR_INVALIDO]
    ELSE IF FGt(valor, c.saldo)
    THEN [conta |-> c, ret |-> FALSE, msg |-> MSG_SEM_SALDO]
    ELSE IF FGt(valor, c.limite)
    THEN [conta |-> c, ret |-> FALSE, msg |-> MSG_EXCEDE_LIMITE]
    ELSE IF c.numero_saques > c.LIMITE_SAQUES
    THEN [conta |-> c, ret |-> FALSE, msg |-> MSG_EXCEDE_SAQUES]
    ELSE [conta |-> adiciona_movimento(
                        [c EXCEPT !.saldo = FSub(c.saldo, valor),
                                  !.numero_saques = @ + 1],
                        "Saque", valor),
          ret |-> TRUE, msg |-> MSG_SAQUE_OK]

\* sacar with the limit test before the balance test
sacar_limite_primeiro(c, valor) ==
    IF FLe(valor, Reais(0))
    THEN [conta |-> c, ret |-> FALSE, msg |-> MSG_VALOR_INVALIDO]
    ELSE IF FGt(valor, c.limite)
    THEN [conta |-> c, ret |-> FALSE, msg |-> MSG_EXCEDE_LIMITE]
    ELSE IF FGt(valor, c.saldo)
    THEN [conta |-> c, ret |-> FALSE, msg |-> MSG_SEM_SALDO]
    ELSE IF c.numero_saques >= c.LIMITE_SAQUES
    THEN [conta |-> c, ret |-> FALSE, msg |-> MSG_EXCEDE_SAQUES]
    ELSE [conta |-> adiciona_movimento(
                        [c EXCEPT !.saldo = FSub(c.saldo, valor),
                                  !.numero_saques = @ + 1],
                        "Saque", valor),
          ret |-> TRUE, msg |-> MSG_SAQUE_OK]

\* sacar with the count test before the balance test
sacar_saques_primeiro(c, valor) ==
    IF FLe(valor, Reais(0))
    THEN [conta |-> c, ret |-> FALSE, msg |-> MSG_VALOR_INVALIDO]
    ELSE IF c.numero_saques >= c.LIMITE_SAQUES
    THEN [conta |-> c, ret |-> FALSE, msg |-> MSG_EXCEDE_SAQUES]
    ELSE IF FGt(valor, c.saldo)
    THEN [conta |-> c, ret |-> FALSE, msg |-> MSG_SEM_SALDO]
    ELSE IF FGt(valor, c.limite)
    THEN [conta |-> c, ret |-> FALSE, msg |-> MSG_EXCEDE_LIMITE]
    ELSE [conta |-> adiciona_movimento(
                        [c EXCEPT !.saldo = FSub(c.saldo, valor),
                                  !.numero_saques = @ + 1],
                        "Saque", valor),
          ret |-> TRUE, msg |-> MSG_SAQUE_OK]

\* sacar without self.numero_saques += 1
sacar_sem_contagem(c, valor) ==
    IF FLe(valor, Reais(0))
    THEN [conta |-> c, ret |-> FALSE, msg |-> MSG_VALOR_INVALIDO]
    ELSE IF FGt(valor, c.saldo)
    THEN [conta |-> c, ret |-> FALSE, msg |-> MSG_SEM_SALDO]
    ELSE IF FGt(valor, c.limite)
    THEN [conta |-> c, ret |-> FALSE, msg |-> MSG_EXCEDE_LIMITE]
    ELSE IF c.numero_saques >= c.LIMITE_SAQUES
    THEN [conta |-> c, ret |-> FALSE, msg |-> MSG_EXCEDE_SAQUES]
    ELSE [conta |-> adiciona_movimento(
                        [c EXCEPT !.saldo = FSub(c.saldo, valor)],
                        "Saque", valor),
          ret |-> TRUE, msg |-> MSG_SAQUE_OK]

\* sacar that counts the attempt before the tests
sacar_conta_tentativa(c, valor) ==
    IF FLe(valor, Reais(0))
    THEN [conta |-> c, ret |-> FALSE, msg |-> MSG_VALOR_INVALIDO]
    ELSE IF FGt(valor, c.saldo)
    THEN [conta |-> [c EXCEPT !.numero_saques = @ + 1],
          ret |-> FALSE, msg |-> MSG_SEM_SALDO]
    ELSE IF FGt(valor, c.limite)
    THEN [conta |-> [c EXCEPT !.numero_saques = @ + 1],
          ret |-> FALSE, msg |-> MSG_EXCEDE_LIMITE]
    ELSE IF c.numero_saques >= c.LIMITE_SAQUES
    THEN [conta |-> c, ret |-> FALSE, msg |-> MSG_EXCEDE_SAQUES]
    ELSE [conta |-> adiciona_movimento(
                        [c EXCEPT !.saldo = FSub(c.saldo, valor),
                                  !.numero_saques = @ + 1],
                        "Saque", valor),
          ret |-> TRUE, msg |-> MSG_SAQUE_OK]

\* Conta.sacar
sacar(c, valor) ==
    IF FLe(valor, Reais(0))
    THEN [conta |-> c, ret |-> FALSE, msg |-> MSG_VALOR_INVALIDO]
    ELSE LET excedeu_saldo == FGt(valor, c.saldo)
             excedeu_limite == FGt(valor, c.limite)
             excedeu_saques == c.numero_saques >= c.LIMITE_SAQUES
         IN  IF excedeu_saldo
             THEN [conta |-> c, ret |-> FALSE, msg |-> MSG_SEM_SALDO]
             ELSE IF excedeu_limite
             THEN [conta |-> c, ret |-> FALSE, msg |-> MSG_EXCEDE_LIMITE]
             ELSE IF excedeu_saques
             THEN [conta |-> c, ret |-> FALSE, msg |-> MSG_EXCEDE_SAQUES]
             ELSE [conta |-> adiciona_movimento(
                                 [c EXCEPT !.saldo = FSub(c.saldo, valor),
                                           !.numero_saques = @ + 1],
                                 "Saque", valor),
                   ret |-> TRUE, msg |-> MSG_SAQUE_OK]

\* exibir_extrato that tests the balance instead of the statement
exibir_extrato_testa_saldo(c) ==
    [aviso |-> c.saldo = Reais(0),
     linhas |-> c.extrato,
     saldo |-> Fmt2(c.saldo)]

\* Conta.exibir_extrato: what it prints: the fixed notice (aviso) or else the
\* lines of the statement, then the balance as "{saldo:.2f}"
exibir_extrato(c) ==
    [aviso |-> c.extrato = <<>>,
     linhas |-> c.extrato,
     saldo |-> Fmt2(c.saldo)]

----------------------------------------------------------------------------
(* Banco *)

\* filtrar_usuario that takes an empty cpf for no cpf
filtrar_usuario_cpf_vazio(us, cpf) ==
    IF cpf # "" /\ \E i \in 1..Len(us) : us[i].cpf = cpf
    THEN CHOOSE i \in 1..Len(us) :
             /\ us[i].cpf = cpf
             /\ \A j \in 1..(i - 1) : us[j].cpf # cpf
    ELSE 0

\* Banco.filtrar_usuario: position of the first user with this cpf, 0 for None
filtrar_usuario(us, cpf) ==
    IF \E i \in 1..Len(us) : us[i].cpf = cpf
    THEN CHOOSE i \in 1..Len(us) :
             /\ us[i].cpf = cpf
             /\ \A j \in 1..(i - 1) : us[j].cpf # cpf
    ELSE 0

\* criar_usuario that overwrites the registered user with the new fields
criar_usuario_sobrescreve(us, nome, data_nascimento, cpf, endereco) ==
    IF filtrar_usuario(us, cpf) # 0
    THEN [usuarios |-> [us EXCEPT ![filtrar_usuario(us, cpf)] =
                            Usuario(nome, data_nascimento, cpf, endereco)],
          ref |-> 0, msg |-> MSG_USUARIO_EXISTE]
    ELSE [usuarios |-> Append(us, Usuario(nome, data_nascimento, cpf, endereco)),
          ref |-> Len(us) + 1, msg |-> MSG_USUARIO_OK]

\* Banco.criar_usuario: the registry after the call, the position of the user
\* returned (0 for None), the message
criar_usuario(us, nome, data_nascimento, cpf, endereco) ==
    IF filtrar_usuario(us, cpf) # 0
    THEN [usuarios |-> us, ref |-> 0, msg |-> MSG_USUARIO_EXISTE]
    ELSE [usuarios |-> Append(us, Usuario(nome, data_nascimento, cpf, endereco)),
          ref |-> Len(us) + 1, msg |-> MSG_USUARIO_OK]

\* criar_conta that takes the next number before looking the user up
criar_conta_consome_numero(us, cs, seq, cpf) ==
    LET usuario == filtrar_usuario(us, cpf)
    IN  IF usuario = 0
        THEN [contas |-> cs, sequencial_conta |-> seq + 1, ref |-> 0,
              msg |-> MSG_USUARIO_NAO_ENCONTRADO]
        ELSE [contas |-> Append(cs, ContaInit(AGENCIA, seq, usuario)),
              sequencial_conta |-> seq + 1, ref |-> Len(cs) + 1,
              msg |-> MSG_CONTA_OK]

\* criar_conta without self._sequencial_conta += 1
criar_conta_sem_incremento(us, cs, seq, cpf) ==
    LET usuario == filtrar_usuario(us, cpf)
    IN  IF usuario = 0
        THEN [contas |-> cs, sequencial_conta |-> seq, ref |-> 0,
              msg |-> MSG_USUARIO_NAO_ENCONTRADO]
        ELSE [contas |-> Append(cs, ContaInit(AGENCIA, seq, usuario)),
              sequencial_conta |-> seq, ref |-> Len(cs) + 1,
              msg |-> MSG_CONTA_OK]

\* Banco.criar_conta: contas and _sequencial_conta after the call, the position
\* of the account returned (0 for None), the message
criar_conta(us, cs, seq, cpf) ==
    LET usuario == filtrar_usuario(us, cpf)
    IN  IF usuario = 0
        THEN [contas |-> cs, sequencial_conta |-> seq, ref |-> 0,
              msg |-> MSG_USUARIO_NAO_ENCONTRADO]
        ELSE [contas |-> Append(cs, ContaInit(AGENCIA, seq, usuario)),
              sequencial_conta |-> seq + 1, ref |-> Len(cs) + 1,
              msg |-> MSG_CONTA_OK]

----------------------------------------------------------------------------
(* State machine *)

\* The last call: operation, target account (position in contas, 0 if none),
\* amount or cpf given, truth value of what it returned, position of the
\* object returned (0 if none), message printed
Chamada(op, conta, valor, cpf, ret, ref, msg) ==
    [op |-> op, conta |-> conta, valor |-> valor, cpf |-> cpf,
     ret |-> ret, ref |-> ref, msg |-> msg]

\* Number of lines of all statements
RECURSIVE TotalMov(_)
TotalMov(cs) ==
    IF cs = <<>> THEN 0 ELSE Len(Head(cs).extrato) + TotalMov(Tail(cs))

\* Banco.__init__
Init ==
    /\ usuarios = <<>>
    /\ contas = <<>>
    /\ sequencial_conta = 1
    /\ ult = Chamada("init", 0, Reais(0), "", FALSE, 0, "")

CriarUsuario(nome, data_nascimento, cpf, endereco) ==
    LET r == criar_usuario(usuarios, nome, data_nascimento, cpf, endereco)
    IN  /\ usuarios' = r.usuarios
        /\ ult' = Chamada("criar_usuario", 0, Reais(0), cpf, r.ref # 0, r.ref, r.msg)
        /\ UNCHANGED <<contas, sequencial_conta>>

CriarConta(cpf) ==
    LET r == criar_conta(usuarios, contas, sequencial_conta, cpf)
    IN  /\ contas' = r.contas
        /\ sequencial_conta' = r.sequencial_conta
        /\ ult' = Chamada("criar_conta", 0, Reais(0), cpf, r.ref # 0, r.ref, r.msg)
        /\ UNCHANGED usuarios

Depositar(i, valor) ==
    /\ i \in 1..Len(contas)
    /\ LET r == depositar(contas[i], valor)
       IN  /\ contas' = [contas EXCEPT ![i] = r.conta]
           /\ ult' = Chamada("depositar", i, valor, "", r.ret, 0, r.msg)
    /\ UNCHANGED <<usuarios, sequencial_conta>>

\* Sacar that keeps one count of withdrawals for all the accounts of the owner
Sacar_saques_por_usuario(i, valor) ==
    /\ i \in 1..Len(contas)
    /\ LET r == sacar(contas[i], valor)
       IN  /\ contas' = [j \in 1..Len(contas) |->
                            IF j = i THEN r.conta
                            ELSE IF contas[j].usuario = contas[i].usuario
                            THEN [contas[j] EXCEPT !.numero_saques = r.conta.numero_saques]
                            ELSE contas[j]]
           /\ ult' = Chamada("sacar", i, valor, "", r.ret, 0, r.msg)
    /\ UNCHANGED <<usuarios, sequencial_conta>>

Sacar(i, valor) ==
    /\ i \in 1..Len(contas)
    /\ LET r == sacar(contas[i], valor)
       IN  /\ contas' = [contas EXCEPT ![i] = r.conta]
           /\ ult' = Chamada("sacar", i, valor, "", r.ret, 0, r.msg)
    /\ UNCHANGED <<usuarios, sequencial_conta>>

ExibirExtrato(i) ==
    /\ i \in 1..Len(contas)
    /\ LET r == exibir_extrato(contas[i])
       IN  ult' = Chamada("exibir_extrato", i, Reais(0), "", FALSE, 0,
                          IF r.aviso THEN MSG_SEM_MOVIMENTACOES ELSE MSG_EXTRATO)
    /\ UNCHANGED <<usuarios, contas, sequencial_conta>>

\* The part of the state space explored: at most nu users, nc accounts and
\* nm statement lines in all
Cabe(nu, nc, nm) ==
    /\ Len(usuarios) <= nu
    /\ Len(contas) <= nc
    /\ TotalMov(contas) <= nm

\* The operations of one account: one registered user, one account (opened
\* while the bank has none), the amounts of Valores
NextConta ==
    \/ \E nome \in NomesConta, data \in Datas, cpf \in CPFsConta, endereco \in Enderecos :
           CriarUsuario(nome, data, cpf, endereco) /\ Cabe(MaxUsuarios, MaxContas, MaxMov)'
    \/ \E cpf \in CPFsConta :
           contas = <<>> /\ CriarConta(cpf) /\ Cabe(MaxUsuarios, MaxContas, MaxMov)'
    \/ \E i \in 1..MaxContas, valor \in ValoresDeposito :
           Depositar(i, valor) /\ Cabe(MaxUsuarios, MaxContas, MaxMov)'
    \/ \E i \in 1..MaxContas, valor \in Valores :
           Sacar(i, valor) /\ Cabe(MaxUsuarios, MaxContas, MaxMov)'
    \/ \E i \in 1..MaxContas : ExibirExtrato(i)

Spec == Init /\ [][NextConta]_vars

\* Registry operations: every name and cpf of Nomes and CPFs, several users
\* and accounts, few amounts
NextBanco ==
    \/ \E nome \in Nomes, data \in Datas, cpf \in CPFs, endereco \in Enderecos :
           CriarUsuario(nome, data, cpf, endereco) /\ Cabe(MaxUsuarios, MaxContas, MaxMovBanco)'
    \/ \E cpf \in CPFs :
           CriarConta(cpf) /\ Cabe(MaxUsuarios, MaxContas, MaxMovBanco)'
    \/ \E i \in 1..MaxContas, valor \in ValoresBanco :
           Depositar(i, valor) /\ Cabe(MaxUsuarios, MaxContas, MaxMovBanco)'
    \/ \E i \in 1..MaxContas, valor \in ValoresBanco :
           Sacar(i, valor) /\ Cabe(MaxUsuarios, MaxContas, MaxMovBanco)'

SpecBanco == Init /\ [][NextBanco]_vars

----------------------------------------------------------------------------
(* Texts typed at the prompts *)

\* A line returned by input() is the sequence of its characters.  str.strip,
\* str.lower, str.upper, str.replace, str.isdigit, "".join, int and float
\* are computed on the characters, for the characters and the forms used in
\* the input sets below (no exponent, no "inf", no "_" in a number).

MaxUsuariosMain == 4
MaxContasMain == 4
MaxMovMain == 4

RECURSIVE lstrip(_)
lstrip(t) == IF t # <<>> /\ Head(t) = " " THEN lstrip(Tail(t)) ELSE t

RECURSIVE rstrip(_)
rstrip(t) ==
    IF t # <<>> /\ t[Len(t)] = " " THEN rstrip(SubSeq(t, 1, Len(t) - 1)) ELSE t

strip(t) == rstrip(lstrip(t))

Maiusculas == <<"C", "D", "E", "L", "N", "P", "Q", "S", "U", "X">>
Minusculas == <<"c", "d", "e", "l", "n", "p", "q", "s", "u", "x">>

lower(t) ==
    [k \in 1..Len(t) |->
        IF \E j \in 1..Len(Maiusculas) : Maiusculas[j] = t[k]
        THEN Minusculas[CHOOSE j \in 1..Len(Maiusculas) : Maiusculas[j] = t[k]]
        ELSE t[k]]

upper(t) ==
    [k \in 1..Len(t) |->
        IF \E j \in 1..Len(Minusculas) : Minusculas[j] = t[k]
        THEN Maiusculas[CHOOSE j \in 1..Len(Minusculas) : Minusculas[j] = t[k]]
        ELSE t[k]]

replace(t, old, new) == [k \in 1..Len(t) |-> IF t[k] = old THEN new ELSE t[k]]

Algarismos == <<"0", "1", "2", "3", "4", "5", "6", "7", "8", "9">>

isdigit(ch) == \E j \in 1..Len(Algarismos) : Algarismos[j] = ch

ValorAlgarismo(ch) == (CHOOSE j \in 1..Len(Algarismos) : Algarismos[j] = ch) - 1

\* The number written by a sequence of digits (0 for no digit)
RECURSIVE ValorAlgarismos(_)
ValorAlgarismos(t) ==
    IF t = <<>> THEN 0
    ELSE 10 * ValorAlgarismos(SubSeq(t, 1, Len(t) - 1)) + ValorAlgarismo(t[Len(t)])

SoAlgarismos(t) == \A k \in 1..Len(t) : isdigit(t[k])

\* "".join(chars)
RECURSIVE join(_)
join(t) == IF t = <<>> THEN "" ELSE Head(t) \o join(Tail(t))

\* A text without its sign, and whether the sign is "-"
SemSinal(t) == IF t # <<>> /\ (Head(t) = "+" \/ Head(t) = "-") THEN Tail(t) ELSE t
Negativo(t) == t # <<>> /\ Head(t) = "-"

\* int(text): erro stands for ValueError
int(t) ==
    LET d == SemSinal(strip(t))
    IN  IF d # <<>> /\ SoAlgarismos(d)
        THEN [erro |-> FALSE,
              n |-> IF Negativo(strip(t)) THEN 0 - ValorAlgarismos(d)
                    ELSE ValorAlgarismos(d)]
        ELSE [erro |-> TRUE, n |-> 0]

\* Position of the first "." of a text, 0 if it has none
Ponto(t) ==
    IF \E k \in 1..Len(t) : t[k] = "."
    THEN CHOOSE k \in 1..Len(t) : t[k] = "." /\ \A j \in 1..(k - 1) : t[j] # "."
    ELSE 0

\* float(text): erro stands for ValueError.  The digits before and after the
\* point give the value; the texts used denote multiples of 1/ESCALA, which
\* float() returns exactly.
float(t) ==
    LET s == strip(t)
        d == SemSinal(s)
        p == Ponto(d)
        inteiro == IF p = 0 THEN d ELSE SubSeq(d, 1, p - 1)
        fracao == IF p = 0 THEN <<>> ELSE SubSeq(d, p + 1, Len(d))
        m == (ValorAlgarismos(inteiro \o fracao) * ESCALA) \div (10 ^ Len(fracao))
    IN  IF lower(d) = <<"n", "a", "n">>
        THEN [erro |-> FALSE, x |-> NaN]
        ELSE IF SoAlgarismos(inteiro) /\ SoAlgarismos(fracao) /\ inteiro \o fracao # <<>>
        THEN [erro |-> FALSE, x |-> F(IF Negativo(s) THEN 0 - m ELSE m)]
        ELSE [erro |-> TRUE, x |-> F(0)]

\* Command lines: the eight commands, a command with blanks and capitals,
\* an unknown command, an empty line
TextosOpcao ==
    {<<"d">>, <<"s">>, <<"e">>, <<"n", "u">>, <<"n", "c">>, <<"l", "c">>,
     <<"l", "c", "x">>, <<"q">>, <<" ", "Q", " ">>, <<"L", "c", "X">>,
     <<"x">>, <<>>}

\* Account number lines: 1, " 2 ", 4 (no such account at the start), "x"
TextosNumero == {<<"1">>, <<" ", "2", " ">>, <<"4">>, <<"x">>}

\* Amount lines: 1,5  500  0  -1  nan  abc  1.000,5
TextosValor ==
    {<<"1", ",", "5">>, <<"5", "0", "0">>, <<"0">>, <<"-", "1">>,
     <<"n", "a", "n">>, <<"a", "b", "c">>, <<"1", ".", "0", "0", "0", ",", "5">>}

\* CPF lines: 111, " 11.1", 123.456.789-01 (the first example user), empty
TextosCpf ==
    {<<"1", "1", "1">>, <<" ", "1", "1", ".", "1">>,
     <<"1", "2", "3", ".", "4", "5", "6", ".", "7", "8", "9", "-", "0", "1">>,
     <<>>}

TextosNome == {<<" ", "A", "n", "a">>}
TextosData == {<<"0", "1", "-", "0", "1", "-", "1", "9", "9", "0">>}
TextosLogradouro == {<<"R", "u", "a", " ", "A">>}
TextosNumeroCasa == {<<"1">>}
TextosBairro == {<<"C", "e", "n", "t", "r", "o">>}
TextosCidade == {<<"S", "a", "o", " ", "P", "a", "u", "l", "o">>}
TextosUf == {<<"s", "p">>}

----------------------------------------------------------------------------
(* The command loop of main *)

MSG_NENHUMA_CONTA == "Nenhuma conta cadastrada."
\* stands for the lines printed by print(conta.resumo()) for every account
MSG_CONTAS == "contas"
\* stands for the lines of lcx: resumo, balance and withdrawals of every account
MSG_CONTAS_SALDOS == "contas com saldos"
MSG_NUMERO_INVALIDO == "Numero de conta invalido."
MSG_CONTA_NAO_ENCONTRADA == "Conta nao encontrada."
MSG_VALOR_NAO_NUMERICO == "Valor invalido."
MSG_ENCERRANDO == "Encerrando..."
MSG_OPERACAO_INVALIDA ==
    "Operacao invalida, por favor selecione novamente a operacao desejada."
\* the traceback of the exception that input() raises at the end of the input
MSG_EOF == "EOFError: EOF when reading a line"

\* Banco.listar_contas: what it prints
listar_contas(cs) == IF cs = <<>> THEN MSG_NENHUMA_CONTA ELSE MSG_CONTAS

\* Banco.obter_conta_por_numero: the position in contas of the first account
\* with that number, 0 for None
obter_conta_por_numero(cs, numero_conta) ==
    IF \E i \in 1..Len(cs) : cs[i].numero_conta = numero_conta
    THEN CHOOSE i \in 1..Len(cs) :
             /\ cs[i].numero_conta = numero_conta
             /\ \A j \in 1..(i - 1) : cs[j].numero_conta # numero_conta
    ELSE 0

\* seed_exemplos on the bank b = [usuarios, contas, sequencial_conta]
seed_exemplos(b) ==
    LET u1 == criar_usuario(b.usuarios, "Ana Clara Souza", "01-01-1990",
                            "12345678901", "Rua A, 100 - Centro - Sao Paulo/SP")
        u2 == criar_usuario(u1.usuarios, "Bruno Lima", "12-05-1985",
                            "98765432100", "Av. Brasil, 200 - Jardim - Campinas/SP")
        u3 == criar_usuario(u2.usuarios, "Carla Menezes", "23-08-1992",
                            "11122233344",
                            "Alameda das Flores, 50 - Bela Vista - Piracicaba/SP")
        nenhuma(cs, seq) == [contas |-> cs, sequencial_conta |-> seq, ref |-> 0, msg |-> ""]
        c1 == IF u1.ref # 0
              THEN criar_conta(u3.usuarios, b.contas, b.sequencial_conta, "12345678901")
              ELSE nenhuma(b.contas, b.sequencial_conta)
        c2 == IF u2.ref # 0
              THEN criar_conta(u3.usuarios, c1.contas, c1.sequencial_conta, "98765432100")
              ELSE nenhuma(c1.contas, c1.sequencial_conta)
        c3 == IF u3.ref # 0
              THEN criar_conta(u3.usuarios, c2.contas, c2.sequencial_conta, "11122233344")
              ELSE nenhuma(c2.contas, c2.sequencial_conta)
        deposita(cs, ref, valor) ==
            IF ref # 0 THEN [cs EXCEPT ![ref] = depositar(cs[ref], valor).conta] ELSE cs
        d1 == deposita(c3.contas, c1.ref, Reais(1500))
        d2 == deposita(d1, c2.ref, Reais(250))
        d3 == deposita(d2, c3.ref, Reais(800))
    IN  [usuarios |-> u3.usuarios, contas |-> d3,
         sequencial_conta |-> c3.sequencial_conta]

\* main up to the first input(): Banco(), seed_exemplos(banco)
InitMain ==
    LET b == seed_exemplos([usuarios |-> <<>>, contas |-> <<>>, sequencial_conta |-> 1])
    IN  /\ usuarios = b.usuarios
        /\ contas = b.contas
        /\ sequencial_conta = b.sequencial_conta
        /\ ult = Chamada("seed_exemplos", 0, Reais(0), "", FALSE, 0,
                         listar_contas(b.contas))

\* The loop is running: the last step was neither the break of q nor the
\* exception that ends the process
Rodando == ult.op # "q" /\ ult.op # "EOFError"

\* opcao = input(menu()).strip().lower()
opcao(t) == lower(strip(t))

\* A command that prints msg and goes back to the prompt (continue)
Continua(op, msg) ==
    /\ ult' = Chamada(op, 0, Reais(0), "", FALSE, 0, msg)
    /\ UNCHANGED <<usuarios, contas, sequencial_conta>>

\* The account asked for by d, s and e: its position, or 0 and the message
LeConta(tn) ==
    LET n == int(tn)
        i == obter_conta_por_numero(contas, n.n)
    IN  IF n.erro THEN [i |-> 0, msg |-> MSG_NUMERO_INVALIDO]
        ELSE IF i = 0 THEN [i |-> 0, msg |-> MSG_CONTA_NAO_ENCONTRADA]
        ELSE [i |-> i, msg |-> ""]

\* The digits of a line: "".join(filter(str.isdigit, input().strip()))
LeCpf(t) == join(SelectSeq(strip(t), isdigit))

Main_d(t, tn, tv) ==
    /\ Rodando
    /\ opcao(t) = <<"d">>
    /\ LET c == LeConta(tn)
           valor == float(replace(tv, ",", "."))
       IN  IF c.i = 0 THEN Continua("d", c.msg)
           ELSE IF valor.erro THEN Continua("d", MSG_VALOR_NAO_NUMERICO)
           ELSE Depositar(c.i, valor.x)

Main_s(t, tn, tv) ==
    /\ Rodando
    /\ opcao(t) = <<"s">>
    /\ LET c == LeConta(tn)
           valor == float(replace(tv, ",", "."))
       IN  IF c.i = 0 THEN Continua("s", c.msg)
           ELSE IF valor.erro THEN Continua("s", MSG_VALOR_NAO_NUMERICO)
           ELSE Sacar(c.i, valor.x)

Main_e(t, tn) ==
    /\ Rodando
    /\ opcao(t) = <<"e">>
    /\ LET c == LeConta(tn)
       IN  IF c.i = 0 THEN Continua("e", c.msg) ELSE ExibirExtrato(c.i)

Main_nu(t, tnome, tdata, tcpf, tlogradouro, tnumero, tbairro, tcidade, tuf) ==
    /\ Rodando
    /\ opcao(t) = <<"n", "u">>
    /\ LET endereco == join(strip(tlogradouro)) \o ", " \o join(strip(tnumero))
                       \o " - " \o join(strip(tbairro)) \o " - "
                       \o join(strip(tcidade)) \o "/" \o join(upper(strip(tuf)))
       IN  CriarUsuario(join(strip(tnome)), join(strip(tdata)), LeCpf(tcpf), endereco)

Main_nc(t, tcpf) ==
    /\ Rodando
    /\ opcao(t) = <<"n", "c">>
    /\ CriarConta(LeCpf(tcpf))

Main_lc(t) ==
    /\ Rodando
    /\ opcao(t) = <<"l", "c">>
    /\ Continua("lc", listar_contas(contas))

Main_lcx(t) ==
    /\ Rodando
    /\ opcao(t) = <<"l", "c", "x">>
    /\ Continua("lcx", IF contas = <<>> THEN MSG_NENHUMA_CONTA ELSE MSG_CONTAS_SALDOS)

\* print("Encerrando..."); break
Main_q(t) ==
    /\ Rodando
    /\ opcao(t) = <<"q">>
    /\ ult' = Chamada("q", 0, Reais(0), "", FALSE, 0, MSG_ENCERRANDO)
    /\ UNCHANGED <<usuarios, contas, sequencial_conta>>

Opcoes ==
    {<<"d">>, <<"s">>, <<"e">>, <<"n", "u">>, <<"n", "c">>, <<"l", "c">>,
     <<"l", "c", "x">>, <<"q">>}

Main_else(t) ==
    /\ Rodando
    /\ opcao(t) \notin Opcoes
    /\ Continua("else", MSG_OPERACAO_INVALIDA)

\* The input ends: input() raises EOFError at the prompt of a command or of
\* one of its arguments.  No handler catches it, so the process ends with
\* the traceback.  Every command reads all its arguments before it calls the
\* bank, so the bank is as the last completed command left it.
Main_EOFError ==
    /\ Rodando
    /\ ult' = Chamada("EOFError", 0, Reais(0), "", FALSE, 0, MSG_EOF)
    /\ UNCHANGED <<usuarios, contas, sequencial_conta>>

\* One iteration of while True, on the lines typed
NextMain ==
    \/ \E t \in TextosOpcao, tn \in TextosNumero, tv \in TextosValor :
           Main_d(t, tn, tv) /\ Cabe(MaxUsuariosMain, MaxContasMain, MaxMovMain)'
    \/ \E t \in TextosOpcao, tn \in TextosNumero, tv \in TextosValor :
           Main_s(t, tn, tv) /\ Cabe(MaxUsuariosMain, MaxContasMain, MaxMovMain)'
    \/ \E t \in TextosOpcao, tn \in TextosNumero : Main_e(t, tn)
    \/ \E t \in TextosOpcao, tnome \in TextosNome, tdata \in TextosData,
          tcpf \in TextosCpf, tlogradouro \in TextosLogradouro,
          tnumero \in TextosNumeroCasa, tbairro \in TextosBairro,
          tcidade \in TextosCidade, tuf \in TextosUf :
           /\ Main_nu(t, tnome, tdata, tcpf, tlogradouro, tnumero, tbairro, tcidade, tuf)
           /\ Cabe(MaxUsuariosMain, MaxContasMain, MaxMovMain)'
    \/ \E t \in TextosOpcao, tcpf \in TextosCpf :
           Main_nc(t, tcpf) /\ Cabe(MaxUsuariosMain, MaxContasMain, MaxMovMain)'
    \/ \E t \in TextosOpcao : Main_lc(t)
    \/ \E t \in TextosOpcao : Main_lcx(t)
    \/ \E t \in TextosOpcao : Main_q(t)
    \/ \E t \in TextosOpcao : Main_else(t)
    \/ Main_EOFError

SpecMain == InitMain /\ [][NextMain]_vars

----------------------------------------------------------------------------
(* Vocabulary of the properties *)

Zero == Reais(0)
Quinhentos == Reais(500)

\* The accounts of the bank, by position
Contas == 1..Len(contas)

\* Number of lines of kind tipo in a statement
RECURSIVE NumLinhas(_, _)
NumLinhas(extrato, tipo) ==
    IF extrato = <<>> THEN 0
    ELSE (IF Head(extrato).tipo = tipo THEN 1 ELSE 0) + NumLinhas(Tail(extrato), tipo)

\* A statement line whose text, read back as a number, is the amount a
LinhaDe(l, tipo, a) ==
    /\ l.tipo = tipo
    /\ ~l.valor.nan
    /\ ~a.nan
    /\ l.valor.centavos * ESCALA = 100 * a.v

\* The last call was op on account i with amount v
UltFoi(op, i, v) == ult.op = op /\ ult.conta = i /\ ult.valor = v

----------------------------------------------------------------------------
(* C1 *)

\* C1: in every reachable state the balance of every account is >= 0.
\* depositar(nan) passes the test valor <= 0 and leaves saldo = nan, for
\* which saldo >= 0 is false.
C1_SaldoNaoNegativo ==
    \A i \in Contas : FGe(contas[i].saldo, Zero)

----------------------------------------------------------------------------
(* C2 *)

\* C2: in every reachable state the withdrawal counter of every account is
\* between 0 and the daily limit 3 inclusive.
C2_SaquesDentroDoLimite ==
    \A i \in Contas : contas[i].numero_saques \in 0..3

\* An account with three withdrawals made on which one more was just refused
C2_Witness ==
    \E i \in Contas :
        /\ contas[i].numero_saques = 3
        /\ ult.op = "sacar" /\ ult.conta = i
        /\ ult.msg = MSG_EXCEDE_SAQUES

----------------------------------------------------------------------------
(* C3 *)

\* The outcome the precedence rule gives for amount v, balance saldo and
\* counter n
RegraSaque(v, saldo, n) ==
    IF FLe(v, Zero) THEN MSG_VALOR_INVALIDO
    ELSE IF FGt(v, saldo) THEN MSG_SEM_SALDO
    ELSE IF FGt(v, Quinhentos) THEN MSG_EXCEDE_LIMITE
    ELSE IF n >= 3 THEN MSG_EXCEDE_SAQUES
    ELSE MSG_SAQUE_OK

\* C3: every sacar reports exactly the first matching outcome in the order
\* invalid amount, insufficient funds, per-operation limit, daily limit,
\* success, whatever the amount, the balance and the counter are; it returns
\* True exactly on success.
C3_PrecedenciaSaque ==
    [][\A i \in Contas, v \in Valores :
          Sacar(i, v) =>
              /\ ult'.msg = RegraSaque(v, contas[i].saldo, contas[i].numero_saques)
              /\ ult'.ret = (ult'.msg = MSG_SAQUE_OK)]_vars

\* A withdrawal above the balance, above 500 and after three withdrawals was
\* refused for insufficient funds
C3_Witness ==
    \E i \in Contas :
        /\ ult.op = "sacar" /\ ult.conta = i
        /\ FGt(ult.valor, contas[i].saldo)
        /\ FGt(ult.valor, Quinhentos)
        /\ contas[i].numero_saques = 3
        /\ ult.msg = MSG_SEM_SALDO

----------------------------------------------------------------------------
(* C4 *)

Linha(tipo, centavos) ==
    [tipo |-> tipo, valor |-> [nan |-> FALSE, centavos |-> centavos]]

\* The bank of the scenario: user "111" registered alone and, when aberta,
\* account 1 alone, with this balance, statement and counter
Cenario(aberta, reais, extrato, n) ==
    /\ Len(usuarios) = 1
    /\ usuarios[1].cpf = "111"
    /\ IF aberta
       THEN /\ Len(contas) = 1
            /\ contas[1].numero_conta = 1
            /\ contas[1].usuario = 1
            /\ contas[1].saldo = Reais(reais)
            /\ contas[1].extrato = extrato
            /\ contas[1].numero_saques = n
       ELSE contas = <<>>

Dep1500 == <<Linha("Deposito", 150000)>>
Saq500 == <<Linha("Saque", 50000)>>

BancoVazio == usuarios = <<>> /\ contas = <<>> /\ sequencial_conta = 1

\* The steps of the scenario up to the third withdrawal
CenarioPassos ==
    /\ (BancoVazio /\ \E nome \in Nomes, data \in Datas, e \in Enderecos :
                          CriarUsuario(nome, data, "111", e))
           => Cenario(FALSE, 0, <<>>, 0)' /\ ult'.ret
    /\ (Cenario(FALSE, 0, <<>>, 0) /\ sequencial_conta = 1 /\ CriarConta("111"))
           => Cenario(TRUE, 0, <<>>, 0)' /\ ult'.ref = 1
    /\ (Cenario(TRUE, 0, <<>>, 0) /\ Depositar(1, Reais(1500)))
           => Cenario(TRUE, 1500, Dep1500, 0)' /\ ult'.ret
    /\ (Cenario(TRUE, 1500, Dep1500, 0) /\ Sacar(1, Reais(500)))
           => Cenario(TRUE, 1000, Dep1500 \o Saq500, 1)' /\ ult'.ret
    /\ (Cenario(TRUE, 1000, Dep1500 \o Saq500, 1) /\ Sacar(1, Reais(500)))
           => Cenario(TRUE, 500, Dep1500 \o Saq500 \o Saq500, 2)' /\ ult'.ret
    /\ (Cenario(TRUE, 500, Dep1500 \o Saq500 \o Saq500, 2) /\ Sacar(1, Reais(500)))
           => Cenario(TRUE, 0, Dep1500 \o Saq500 \o Saq500 \o Saq500, 3)' /\ ult'.ret

\* The fourth withdrawal, of 1.00, fails with msg and changes no account
CenarioQuartoSaque(msg) ==
    (Cenario(TRUE, 0, Dep1500 \o Saq500 \o Saq500 \o Saq500, 3) /\ Sacar(1, Reais(1)))
        => /\ ~ult'.ret
           /\ ult'.msg = msg
           /\ contas' = contas

\* C4 as stated: from an empty bank, register "111", open account 1 with
\* balance 0, deposit 1500.00, withdraw 500.00 three times (balance 0.00,
\* counter 3); the fourth withdrawal, of 1.00, fails with the daily-limit
\* message and leaves the balance at 0.00.
C4_CenarioLimiteDiario ==
    [][CenarioPassos /\ CenarioQuartoSaque(MSG_EXCEDE_SAQUES)]_vars

\* C4 amended: the same scenario; the fourth withdrawal, of 1.00, fails with
\* the insufficient-funds message (1.00 is above the balance 0.00, and that
\* test comes before the daily limit) and leaves the balance at 0.00.
C4_CenarioSemSaldo ==
    [][CenarioPassos /\ CenarioQuartoSaque(MSG_SEM_SALDO)]_vars

\* The end of the scenario: the fourth withdrawal, of 1.00, was just refused
C4_Witness ==
    /\ Cenario(TRUE, 0, Dep1500 \o Saq500 \o Saq500 \o Saq500, 3)
    /\ UltFoi("sacar", 1, Reais(1))
    /\ ~ult.ret
    /\ ult.msg = MSG_SEM_SALDO

----------------------------------------------------------------------------
(* C5 *)

\* C5: once three withdrawals have succeeded on an account (its statement has
\* three Saque lines), a withdrawal with 0 < amount <= balance and
\* amount <= 500 fails with the daily-limit message and changes nothing.
C5_QuartoSaqueRecusado ==
    [][\A i \in Contas, v \in Valores :
          (/\ NumLinhas(contas[i].extrato, "Saque") >= 3
           /\ FGt(v, Zero) /\ FLe(v, contas[i].saldo) /\ FLe(v, Quinhentos)
           /\ Sacar(i, v))
          => /\ ~ult'.ret
             /\ ult'.msg = MSG_EXCEDE_SAQUES
             /\ contas' = contas]_vars

\* After three withdrawals a withdrawal the balance and the limit allow was
\* just refused
C5_Witness ==
    \E i \in Contas :
        /\ NumLinhas(contas[i].extrato, "Saque") = 3
        /\ ult.op = "sacar" /\ ult.conta = i
        /\ FGt(ult.valor, Zero)
        /\ FLe(ult.valor, contas[i].saldo)
        /\ FLe(ult.valor, Quinhentos)
        /\ ~ult.ret

----------------------------------------------------------------------------
(* C6 *)

\* The statement of account i gains exactly one line, of kind tipo and amount a
GanhaLinha(i, tipo, a) ==
    LET antes == contas[i].extrato
        depois == contas'[i].extrato
    IN  /\ Len(depois) = Len(antes) + 1
        /\ SubSeq(depois, 1, Len(antes)) = antes
        /\ LinhaDe(depois[Len(depois)], tipo, a)

\* C6: every sacar(a) with 0 < a <= balance, a <= 500 and counter < 3
\* succeeds, leaves balance = balance before - a, raises the counter by
\* exactly 1 and appends exactly one Saque line of amount a.  The line
\* carries the amount at two decimals: for a = 1/256 it reads 0.00.
C6_SaqueValido ==
    [][\A i \in Contas, v \in Valores :
          (/\ FGt(v, Zero) /\ FLe(v, contas[i].saldo) /\ FLe(v, Quinhentos)
           /\ contas[i].numero_saques < 3
           /\ Sacar(i, v))
          => /\ ult'.ret
             /\ contas'[i].saldo = FSub(contas[i].saldo, v)
             /\ contas'[i].numero_saques = contas[i].numero_saques + 1
             /\ GanhaLinha(i, "Saque", v)]_vars

----------------------------------------------------------------------------
(* C7 *)

\* C7: every depositar(a) with a > 0, in any account state, succeeds, leaves
\* balance = balance before + a, appends exactly one Deposito line of amount
\* a and leaves the counter unchanged.  The line carries the amount at two
\* decimals: for a = 1/256 it reads 0.00.
C7_DepositoValido ==
    [][\A i \in Contas, v \in Valores :
          (FGt(v, Zero) /\ Depositar(i, v))
          => /\ ult'.ret
             /\ contas'[i].saldo = FAdd(contas[i].saldo, v)
             /\ contas'[i].numero_saques = contas[i].numero_saques
             /\ GanhaLinha(i, "Deposito", v)]_vars

----------------------------------------------------------------------------
(* C8 *)

\* C8: for every amount a <= 0, zero included, depositar(a) and sacar(a)
\* return False with the invalid-amount message and leave the balance, the
\* statement and the counter of the account (and every other account)
\* unchanged, in every account state.
C8_ValorInvalido ==
    [][\A i \in Contas, v \in Valores :
          (FLe(v, Zero) /\ (Depositar(i, v) \/ Sacar(i, v)))
          => /\ ~ult'.ret
             /\ ult'.msg = MSG_VALOR_INVALIDO
             /\ contas' = contas]_vars

\* A deposit of 0.00 was just refused on an account that has movements and
\* withdrawals
C8_Witness ==
    \E i \in Contas :
        /\ UltFoi("depositar", i, Zero)
        /\ ~ult.ret
        /\ ult.msg = MSG_VALOR_INVALIDO
        /\ contas[i].numero_saques > 0
        /\ FGt(contas[i].saldo, Zero)

----------------------------------------------------------------------------
(* C9 *)

\* Some registered user has this cpf
Cadastrado(cpf) == \E k \in 1..Len(usuarios) : usuarios[k].cpf = cpf

\* C9: criar_usuario with a cpf already in the registry returns None with the
\* already-registered message and leaves the registry unchanged: same users,
\* same order, same field values.
C9_UsuarioDuplicado ==
    [][\A nome \in Nomes, data \in Datas, cpf \in CPFs, e \in Enderecos :
          (Cadastrado(cpf) /\ CriarUsuario(nome, data, cpf, e))
          => /\ usuarios' = usuarios
             /\ ~ult'.ret
             /\ ult'.ref = 0
             /\ ult'.msg = MSG_USUARIO_EXISTE]_vars

\* A registration was just refused for the cpf of the second of two users
C9_Witness ==
    /\ Len(usuarios) = 2
    /\ ult.op = "criar_usuario"
    /\ ult.cpf = usuarios[2].cpf
    /\ ~ult.ret
    /\ ult.msg = MSG_USUARIO_EXISTE

----------------------------------------------------------------------------
(* C10 *)

\* C10: in every reachable state no two users of the registry have the same
\* cpf, whatever cpfs were given, repeated and empty ones included.
C10_CpfUnico ==
    \A j, k \in 1..Len(usuarios) :
        j # k => usuarios[j].cpf # usuarios[k].cpf

\* Two users, one with the empty cpf, after a second registration with the
\* empty cpf was refused
C10_Witness ==
    /\ Len(usuarios) = 2
    /\ Cadastrado("")
    /\ ult.op = "criar_usuario"
    /\ ult.cpf = ""
    /\ ~ult.ret

----------------------------------------------------------------------------
(* C11 *)

\* C11: criar_conta with a cpf that is not registered returns None with the
\* user-not-found message, stores no account and consumes no number: the
\* next number is unchanged, and a successful criar_conta gives the account
\* the number that follows the accounts already opened.
C11_UsuarioNaoEncontrado ==
    [][\A cpf \in CPFs :
          CriarConta(cpf) =>
              IF Cadastrado(cpf)
              THEN /\ ult'.ret
                   /\ contas'[Len(contas')].numero_conta = Len(contas) + 1
              ELSE /\ ~ult'.ret
                   /\ ult'.ref = 0
                   /\ ult'.msg = MSG_USUARIO_NAO_ENCONTRADO
                   /\ contas' = contas
                   /\ sequencial_conta' = sequencial_conta]_vars

\* An account was just refused for an unregistered cpf in a bank that has
\* already opened one
C11_Witness ==
    /\ Len(contas) = 1
    /\ ult.op = "criar_conta"
    /\ ~Cadastrado(ult.cpf)
    /\ ~ult.ret
    /\ ult.msg = MSG_USUARIO_NAO_ENCONTRADO

----------------------------------------------------------------------------
(* C12 *)

\* The k-th account has number k and the next number follows the last
NumeracaoSequencial ==
    /\ \A k \in Contas : contas[k].numero_conta = k
    /\ sequencial_conta = Len(contas) + 1

\* A successful criar_conta appends and returns a fresh account of the
\* registered user with this cpf
AberturaCorreta ==
    \A cpf \in CPFs :
        (CriarConta(cpf) /\ ult'.ret)
        => /\ Len(contas') = Len(contas) + 1
           /\ SubSeq(contas', 1, Len(contas)) = contas
           /\ ult'.ref = Len(contas')
           /\ LET c == contas'[Len(contas')]
              IN  /\ c.saldo = Zero
                  /\ c.extrato = <<>>
                  /\ c.numero_saques = 0
                  /\ c.usuario \in 1..Len(usuarios)
                  /\ usuarios[c.usuario].cpf = cpf

\* C12: account numbers are unique and sequential from 1: in every reachable
\* state the k-th account in creation order has number k; each successful
\* criar_conta returns an account with balance 0, empty statement and counter
\* 0, bound to the registered user with the given cpf.
C12_NumeracaoEAbertura ==
    []NumeracaoSequencial /\ [][AberturaCorreta]_vars

\* A second account was just opened, for the second user, while the first
\* account has movements
C12_Witness ==
    /\ Len(contas) = 2
    /\ ult.op = "criar_conta" /\ ult.ref = 2
    /\ contas[2].usuario = 2
    /\ contas[1].extrato # <<>>

----------------------------------------------------------------------------
(* C13 *)

\* A deposit or a withdrawal has just succeeded on account i
MovimentouAgora(i) ==
    /\ ult'.op \in {"depositar", "sacar"}
    /\ ult'.conta = i
    /\ ult'.ret

\* After the step the statement of account i would show the notice exactly
\* when the account is new, or showed it before and no deposit or withdrawal
\* has just succeeded on it; with the notice goes the balance 0.00, without it
\* go the lines of the statement
AvisoSemMovimento(i) ==
    LET depois == exibir_extrato(contas'[i])
    IN  /\ depois.aviso <=>
               IF i > Len(contas) THEN TRUE
               ELSE exibir_extrato(contas[i]).aviso /\ ~MovimentouAgora(i)
        /\ depois.aviso => depois.saldo = [nan |-> FALSE, centavos |-> 0]
        /\ ~depois.aviso => depois.linhas = contas'[i].extrato /\ depois.linhas # <<>>

\* C13: exibir_extrato prints the fixed "no movements" notice exactly when no
\* deposit or withdrawal has ever succeeded on the account (then with the
\* balance 0.00) and the lines of the statement after any successful deposit
\* or withdrawal; exibir_extrato itself changes no state.
C13_ExtratoSemMovimentacoes ==
    [][/\ \A i \in 1..Len(contas') : AvisoSemMovimento(i)
       /\ \A i \in Contas :
              ExibirExtrato(i)
              => /\ UNCHANGED <<usuarios, contas, sequencial_conta>>
                 /\ ult'.msg = IF contas[i].extrato = <<>>
                               THEN MSG_SEM_MOVIMENTACOES ELSE MSG_EXTRATO]_vars

\* The notice was just printed for an account without movements
C13_Witness ==
    \E i \in Contas :
        /\ ult.op = "exibir_extrato" /\ ult.conta = i
        /\ ult.msg = MSG_SEM_MOVIMENTACOES
        /\ contas[i].extrato = <<>>
        /\ contas[i].saldo = Zero

----------------------------------------------------------------------------------------------------------------------------------------
(* C14 *)

\* The loop of main has ended
Encerrado == ~Rodando

\* C14: the command loop ends exactly in the steps that read the command q:
\* every step that ends it read q, and after every other command, accepted
\* or refused, it is still running; there is no other exit path.
C14_SoTerminaComQ == [][Encerrado' <=> ult'.op = "q"]_vars

----------------
(* C15 *)

\* C15: the withdrawal counter of an account is a running total that no
\* operation resets or lowers: once three withdrawals have succeeded on an
\* account (its statement has three Saque lines), no later sacar on it
\* succeeds, whatever was done in between.
C15_ContadorNuncaZera ==
    [][/\ \A i \in Contas :
              contas'[i].numero_saques >= contas[i].numero_saques
       /\ \A i \in Contas, v \in Valores :
              (NumLinhas(contas[i].extrato, "Saque") >= 3 /\ Sacar(i, v))
              => ~ult'.ret /\ contas' = contas]_vars

\* Three withdrawals, then a deposit, then a withdrawal that the balance and
\* the limit allow was just refused
C15_Witness ==
    \E i \in Contas :
        LET e == contas[i].extrato
        IN  /\ NumLinhas(e, "Saque") = 3
            /\ e[Len(e)].tipo = "Deposito"
            /\ ult.op = "sacar" /\ ult.conta = i
            /\ FGt(ult.valor, Zero)
            /\ FLe(ult.valor, contas[i].saldo)
            /\ FLe(ult.valor, Quinhentos)
            /\ ~ult.ret

----------------------------------------------------------------------------
(* C16 *)

\* C16: every sacar that fails, whatever the failure, leaves the balance,
\* the counter and the statement of the account as they were; a failed
\* attempt does not count toward the three withdrawals.
C16_SaqueRecusadoNaoAltera ==
    [][\A i \in Contas, v \in Valores :
          (Sacar(i, v) /\ ~ult'.ret)
          => /\ contas'[i].saldo = contas[i].saldo
             /\ contas'[i].numero_saques = contas[i].numero_saques
             /\ contas'[i].extrato = contas[i].extrato
             /\ contas' = contas]_vars

\* A withdrawal above the limit was just refused on an account with two
\* withdrawals made, and left the counter at two
C16_Witness ==
    \E i \in Contas :
        /\ ult.op = "sacar" /\ ult.conta = i
        /\ ~ult.ret
        /\ ult.msg = MSG_EXCEDE_LIMITE
        /\ contas[i].numero_saques = 2
        /\ NumLinhas(contas[i].extrato, "Saque") = 2

----------------------------------------------------------------------------
(* C17 *)

\* A statement line with a strictly positive amount
ValorPositivo(l) == ~l.valor.nan /\ l.valor.centavos > 0

\* C17: the statement of each account is append-only: every operation leaves
\* it unchanged or appends exactly one line at the end, the earlier statement
\* being a prefix of the later one, and every line has a strictly positive
\* amount.  depositar(1/256) appends a line that reads 0.00 (and
\* depositar(nan) one that reads nan).
C17_ExtratoSoCresce ==
    [][\A i \in Contas :
          LET antes == contas[i].extrato
              depois == contas'[i].extrato
          IN  /\ \/ depois = antes
                 \/ /\ Len(depois) = Len(antes) + 1
                    /\ SubSeq(depois, 1, Len(antes)) = antes
              /\ \A k \in 1..Len(depois) : ValorPositivo(depois[k])]_vars

----------------------------------------------------------------------------
(* C18 *)

\* Sum, in centavos, of the amounts of the lines of kind tipo
RECURSIVE SomaLinhas(_, _)
SomaLinhas(extrato, tipo) ==
    IF extrato = <<>> THEN 0
    ELSE (IF Head(extrato).tipo = tipo THEN Head(extrato).valor.centavos ELSE 0)
         + SomaLinhas(Tail(extrato), tipo)

\* C18: in every reachable state the balance of each account equals the sum
\* of the amounts of the Deposito lines of its statement minus the sum of the
\* amounts of its Saque lines, and its counter equals the number of its Saque
\* lines.  After depositar(1/256) the balance is 1/256 and the only line
\* reads 0.00 (after depositar(nan) both are nan).
C18_Conservacao ==
    \A i \in Contas :
        LET c == contas[i]
        IN  /\ ~c.saldo.nan
            /\ \A k \in 1..Len(c.extrato) : ~c.extrato[k].valor.nan
            /\ c.saldo.v * 100 =
                   ESCALA * (SomaLinhas(c.extrato, "Deposito")
                             - SomaLinhas(c.extrato, "Saque"))
            /\ c.numero_saques = NumLinhas(c.extrato, "Saque")

----------------------------------------------------------------------------
(* C19 *)

\* C19: a depositar or sacar on one account leaves the balance, statement
\* and counter of every other account unchanged, other accounts of the same
\* user included, and leaves the users, the list of accounts, the owner and
\* number of the account and the next account number unchanged.
C19_Isolamento ==
    [][\A i \in Contas, v \in ValoresBanco :
          (Depositar(i, v) \/ Sacar(i, v))
          => /\ \A j \in Contas : j # i => contas'[j] = contas[j]
             /\ Len(contas') = Len(contas)
             /\ contas'[i].numero_conta = contas[i].numero_conta
             /\ contas'[i].usuario = contas[i].usuario
             /\ contas'[i].agencia = contas[i].agencia
             /\ usuarios' = usuarios
             /\ sequencial_conta' = sequencial_conta]_vars

\* Two accounts of the same user: a withdrawal has just succeeded on one and
\* the other has no movement and no withdrawal counted
C19_Witness ==
    \E i, j \in Contas :
        /\ i # j
        /\ contas[i].usuario = contas[j].usuario
        /\ ult.op = "sacar" /\ ult.conta = i /\ ult.ret
        /\ contas[i].numero_saques = 1
        /\ contas[j].numero_saques = 0
        /\ contas[j].extrato = <<>>
        /\ contas[j].saldo = Zero

====
